---- MODULE Spec2Model ----
(***************************************************************************)
(* ReviewReap: CSV import handlers, API proxy routes, row-level-security   *)
(* policies, foreign keys of the schema and the message retry policy.      *)
(* Strings whose content the code inspects (CSV cells) are sequences of    *)
(* one-character strings, so that trim() and the email pattern are         *)
(* computed, not assumed.                                                  *)
(***************************************************************************)
EXTENDS Integers, Sequences, FiniteSets, TLC

VARIABLES
    (* CSV import: src/frontend/src/pages/api/upload/csv/process/[id].ts,  *)
    (* src/frontend/src/app/api/upload/csv/upload/route.ts                 *)
    upload_jobs,      \* table upload_jobs: job id -> row
    customers,        \* table customers: sequence of inserted rows
    disk,             \* uploads directory: job ids whose file is on disk
    uploadResp,       \* the answer to the last upload request
    req,              \* process requests: slot -> handler locals and position
    slots,            \* request slots that clients use in this run
    (* API proxy routes *)
    proxy,            \* proxy calls answered so far: route -> last exchange
    (* Row level security *)
    users,            \* table users: user id -> org_id
    orgPolicies,      \* policies currently defined on table orgs
    access,           \* last access decision taken under the policies
    (* Foreign keys *)
    db,               \* rows of the schema's tables
    lastDelete,       \* the last statement, when it was a DELETE, and its outcome
    (* Message dispatch *)
    msg,              \* one message of a campaign and its retry state
    (* Reviews *)
    reviewsDef,       \* which script created table reviews, if any
    reviews,          \* table reviews: review id -> rating
    lastReview,       \* the last INSERT or UPDATE on reviews and its outcome
    (* Organization routes *)
    orgs,             \* table orgs: ids of the organizations that exist
    orgReq,           \* the last request to users/ensure-org or users/create
    (* Campaign execution panel *)
    ui                \* CampaignExecution: its props, state and rendered buttons

csvVars   == <<upload_jobs, customers, disk, uploadResp, req, slots>>
proxyVars == <<proxy>>
rlsVars   == <<users, orgPolicies, access>>
dbVars    == <<db, lastDelete>>
retryVars == <<msg>>
reviewVars == <<reviewsDef, reviews, lastReview>>
orgVars == <<orgs, orgReq>>
campaignVars == <<ui>>
vars == <<upload_jobs, customers, disk, uploadResp, req, slots, proxy, users, orgPolicies,
          access, db, lastDelete, msg, reviewsDef, reviews, lastReview,
          orgs, orgReq, ui>>

(***************************************************************************)
(* Bounds                                                                  *)
(***************************************************************************)
MaxDataRows == 2

(***************************************************************************)
(* Strings                                                                 *)
(***************************************************************************)
ABSENT == <<"undefined">>       \* a property that was never set on an object
NULL   == "NULL"                \* SQL NULL in an id column

\* String.prototype.trim(): strip leading and trailing white space
RECURSIVE TrimLeft(_)
TrimLeft(s) ==
    IF s # <<>> /\ Head(s) = " " THEN TrimLeft(Tail(s)) ELSE s

RECURSIVE TrimRight(_)
TrimRight(s) ==
    IF s # <<>> /\ s[Len(s)] = " " THEN TrimRight(SubSeq(s, 1, Len(s) - 1)) ELSE s

Trim(s) == TrimRight(TrimLeft(s))

\* [^\s@]+ : one or more characters, none of them white space or '@'
NoSpaceNoAt(s) ==
    /\ s # <<>>
    /\ \A k \in 1..Len(s) : s[k] # " " /\ s[k] # "@"

\* /^[^\s@]+@[^\s@]+\.[^\s@]+$/.test(s)
EmailPattern(s) ==
    \E i \in 1..Len(s) : \E j \in 1..Len(s) :
        /\ i < j
        /\ s[i] = "@"
        /\ s[j] = "."
        /\ NoSpaceNoAt(SubSeq(s, 1, i - 1))
        /\ NoSpaceNoAt(SubSeq(s, i + 1, j - 1))
        /\ NoSpaceNoAt(SubSeq(s, j + 1, Len(s)))

(***************************************************************************)
(* CSV files and column mappings offered to the handlers                   *)
(***************************************************************************)
HName  == <<"N">>
HPhone == <<"P">>
HEmail == <<"E">>
HeaderRow == <<HName, HPhone, HEmail>>

Al        == <<"a">>
AlPadded  == <<" ", "a", " ">>
Blank     == <<" ">>
Empty     == <<>>
Phone1    == <<"1">>
GoodMail  == <<"a", "@", "a", ".", "a">>
PadMail   == <<" ", "a", "@", "a", ".", "a", " ">>
NoDotMail == <<"a", "@", "a">>
TwoAtMail == <<"a", "@", "@", "a", ".", "a">>

DataRows ==
    { <<Al, Phone1, GoodMail>>,
      <<Al, Phone1, NoDotMail>>,
      <<Empty, Phone1, NoDotMail>>,
      <<Blank, Empty, Empty>>,
      <<Al>>,
      <<AlPadded, Empty, PadMail>>,
      <<Al, Empty, Blank>>,
      <<Al, Phone1, TwoAtMail>> }

RECURSIVE SeqsUpTo(_, _)
SeqsUpTo(S, n) ==
    IF n = 0 THEN { <<>> }
    ELSE LET shorter == SeqsUpTo(S, n - 1)
         IN  shorter \cup { Append(q, x) : q \in shorter, x \in S }

\* a stored file: no line at all, or a header line followed by data rows
Files == { <<>> } \cup { <<HeaderRow>> \o d : d \in SeqsUpTo(DataRows, MaxDataRows) }

\* column_mapping: CSV header -> customer field; a header that is not a key
\* of the object maps to undefined ("")
ColumnMappings ==
    { [h \in {HName, HPhone, HEmail} |->
          CASE h = HName -> "name" [] h = HPhone -> "phone" [] OTHER -> "email"],
      [h \in {HName, HPhone} |->
          CASE h = HName -> "name" [] OTHER -> "ignore"],
      [h \in {HName, HPhone, HEmail} |->
          CASE h = HName -> "email" [] h = HPhone -> "phone" [] OTHER -> "name"],
      [h \in {HName, HPhone, HEmail} |->
          CASE h = HName -> "name" [] h = HPhone -> "name" [] OTHER -> "email"],
      [h \in {HName, HPhone, HEmail} |->
          CASE h = HName -> "name" [] h = HPhone -> "org_id" [] OTHER -> "email"],
      [h \in {HPhone} |-> "phone"] }

Lookup(columnMapping, header) ==
    IF header \in DOMAIN columnMapping THEN columnMapping[header] ELSE ""

(***************************************************************************)
(* Row processing: the 'data' callback of the CSV stream                   *)
(***************************************************************************)
CustomerKeys == {"name", "phone", "email", "org_id"}
EmptyCustomer == [k \in CustomerKeys |-> ABSENT]

\* rowArray[index] is truthy and its trimmed value is not empty
CellValue(rowArray, index) ==
    IF index <= Len(rowArray) /\ rowArray[index] # <<>>
    THEN Trim(rowArray[index]) ELSE <<>>

\* headers.forEach: copy every mapped, non-blank cell into customerData
RECURSIVE MapColumns(_, _, _, _, _)
MapColumns(headers, index, rowArray, columnMapping, customerData) ==
    IF index > Len(headers) THEN customerData
    ELSE LET mappedField == Lookup(columnMapping, headers[index])
             value == CellValue(rowArray, index)
             next == IF mappedField # "" /\ mappedField # "ignore" /\ value # <<>>
                     THEN [customerData EXCEPT ![mappedField] = value]
                     ELSE customerData
         IN  MapColumns(headers, index + 1, rowArray, columnMapping, next)

HasRequiredData(headers, rowArray, columnMapping) ==
    \E index \in 1..Len(headers) :
        /\ Lookup(columnMapping, headers[index]) = "name"
        /\ CellValue(rowArray, index) # <<>>

\* RowVerdict without the email check
RowVerdictNoEmailCheck(headers, rowArray, columnMapping) ==
    LET customerData == MapColumns(headers, 1, rowArray, columnMapping, EmptyCustomer)
    IN  IF ~HasRequiredData(headers, rowArray, columnMapping)
           \/ customerData["name"] = ABSENT
        THEN "Name is required"
        ELSE "ok"

\* RowVerdict with the email check applied to a missing email as well
RowVerdictEmailRequired(headers, rowArray, columnMapping) ==
    LET customerData == MapColumns(headers, 1, rowArray, columnMapping, EmptyCustomer)
    IN  IF ~HasRequiredData(headers, rowArray, columnMapping)
           \/ customerData["name"] = ABSENT
        THEN "Name is required"
        ELSE IF ~EmailPattern(customerData["email"])
        THEN "Invalid email format"
        ELSE "ok"

\* the outcome of one data row: "ok" (pushed on customers) or the error text
RowVerdict(headers, rowArray, columnMapping) ==
    LET customerData == MapColumns(headers, 1, rowArray, columnMapping, EmptyCustomer)
    IN  IF ~HasRequiredData(headers, rowArray, columnMapping)
           \/ customerData["name"] = ABSENT
        THEN "Name is required"
        ELSE IF customerData["email"] # ABSENT /\ ~EmailPattern(customerData["email"])
        THEN "Invalid email format"
        ELSE "ok"

\* the 'data' callback (lines 120-188) on the handler's locals; pushed is
\* the history of customers.push: the row numbers that were pushed
OnData(me, rowArray) ==
    IF me.isFirstRow
    THEN [me EXCEPT !.totalRows = @ + 1, !.headers = rowArray, !.isFirstRow = FALSE]
    ELSE IF RowVerdict(me.headers, rowArray, me.columnMapping) = "ok"
    THEN [me EXCEPT
            !.totalRows = @ + 1,
            !.customers = Append(@, MapColumns(me.headers, 1, rowArray,
                                               me.columnMapping, EmptyCustomer)),
            !.pushed = Append(@, me.totalRows + 1)]
    ELSE [me EXCEPT
            !.totalRows = @ + 1,
            !.errors = Append(@, [row |-> me.totalRows + 1,
                                  error |-> RowVerdict(me.headers, rowArray,
                                                       me.columnMapping)])]

\* the stream delivers rows n, n+1, ... of the file in order
RECURSIVE ReadRows(_, _, _)
ReadRows(me, file, n) ==
    IF n > Len(file) THEN me ELSE ReadRows(OnData(me, file[n]), file, n + 1)

(***************************************************************************)
(* Accounts known to Supabase auth and the users table                     *)
(***************************************************************************)
UserIds == {"u1", "u2", "u3"}
OrgIds  == {"o1", "o2"}
JobIds  == {"j1"}
ReqIds  == {"r1", "r2"}

\* users.org_id of the profile row; u3 signed up and has no organization yet
ProfileOrg(u) == CASE u = "u1" -> "o1" [] u = "u2" -> "o2" [] OTHER -> NULL

\* the Authorization header: absent, a token Supabase rejects, or the
\* access token of a user
Tokens == {"none", "bad"} \cup UserIds

NoErrors == [null |-> FALSE, items |-> <<>>]          \* DEFAULT '[]'::jsonb

IdleReq ==
    [pc |-> "idle", user |-> NULL, org_id |-> NULL, id |-> NULL,
     columnMapping |-> <<>>, customers |-> <<>>, errors |-> <<>>,
     totalRows |-> 0, isFirstRow |-> TRUE, headers |-> <<>>,
     pushed |-> <<>>, i |-> 0, insertedCount |-> 0,
     status |-> 0, error |-> ""]

Respond(r, code, text) ==
    [IdleReq EXCEPT !.pc = "done", !.user = req[r].user, !.id = req[r].id,
                    !.status = code, !.error = text]

batchSize == 100

(***************************************************************************)
(* An upload_jobs row inserted without a status gets the column default.   *)
(* Such a row is not written by the upload route (it writes 'uploaded'),   *)
(* so its file did not pass that route's checks and may hold no line.      *)
(***************************************************************************)
DefaultJobStatus == "pending"

InsertUploadJob(j, u, content) ==
    /\ j \notin DOMAIN upload_jobs
    /\ uploadResp.status = 0
    /\ ProfileOrg(u) # NULL
    /\ upload_jobs' = (j :> [org_id |-> ProfileOrg(u), user_id |-> u,
                             status |-> DefaultJobStatus, total_rows |-> 0,
                             processed_rows |-> 0, errors |-> NoErrors,
                             file_path |-> j, created_by |-> "insert"])
                       @@ upload_jobs
    /\ disk' = (j :> content) @@ disk
    /\ UNCHANGED <<customers, uploadResp, req, slots>>

(***************************************************************************)
(* POST /api/upload/csv/upload                                             *)
(***************************************************************************)
UploadedJobStatus == "uploaded"

UploadCsv(j, token, hasFile, isCsvName, content, dbOk) ==
    /\ j \notin DOMAIN upload_jobs
    /\ uploadResp.status = 0
    /\ IF token = "none"
       THEN /\ uploadResp' = [status |-> 401, error |-> "Unauthorized", job_id |-> NULL]
            /\ UNCHANGED <<upload_jobs, disk>>
       ELSE IF token = "bad"
       THEN /\ uploadResp' = [status |-> 401, error |-> "Invalid token", job_id |-> NULL]
            /\ UNCHANGED <<upload_jobs, disk>>
       ELSE IF ProfileOrg(token) = NULL
       THEN /\ uploadResp' = [status |-> 400,
                              error |-> "User not associated with an organization",
                              job_id |-> NULL]
            /\ UNCHANGED <<upload_jobs, disk>>
       ELSE IF ~hasFile
       THEN /\ uploadResp' = [status |-> 400, error |-> "No file uploaded", job_id |-> NULL]
            /\ UNCHANGED <<upload_jobs, disk>>
       ELSE IF ~isCsvName
       THEN /\ uploadResp' = [status |-> 400, error |-> "Only CSV files are allowed",
                              job_id |-> NULL]
            /\ UNCHANGED <<upload_jobs, disk>>
       ELSE IF content = <<>>
       THEN /\ uploadResp' = [status |-> 400, error |-> "CSV file is empty", job_id |-> NULL]
            /\ UNCHANGED <<upload_jobs, disk>>
       ELSE IF ~dbOk
       THEN /\ uploadResp' = [status |-> 500, error |-> "Failed to create upload job",
                              job_id |-> NULL]
            /\ UNCHANGED <<upload_jobs, disk>>
       ELSE /\ upload_jobs' = (j :> [org_id |-> ProfileOrg(token), user_id |-> token,
                                     status |-> UploadedJobStatus,
                                     total_rows |-> Len(content) - 1,
                                     processed_rows |-> 0, errors |-> NoErrors,
                                     file_path |-> j, created_by |-> "upload"])
                               @@ upload_jobs
            /\ disk' = (j :> content) @@ disk
            /\ uploadResp' = [status |-> 200, error |-> "", job_id |-> j]
    /\ UNCHANGED <<customers, req, slots>>

(***************************************************************************)
(* POST /api/upload/csv/process/{id}                                       *)
(***************************************************************************)
\* lines 35-84: method, authentication, organization, job lookup, status
Begin(r, method, token, id) ==
    /\ r \in slots
    /\ req[r].pc = "idle"
    /\ LET user == IF token \in UserIds THEN token ELSE NULL
           org  == IF token \in UserIds THEN ProfileOrg(token) ELSE NULL
           me   == [req[r] EXCEPT !.user = user, !.id = id]
           answer(code, text) ==
               [me EXCEPT !.pc = "done", !.status = code, !.error = text]
       IN  req' = [req EXCEPT ![r] =
              IF method # "POST" THEN answer(405, "Method not allowed")
              ELSE IF token = "none" THEN answer(401, "Unauthorized")
              ELSE IF token = "bad" THEN answer(401, "Invalid token")
              ELSE IF org = NULL
                   THEN answer(400, "User not associated with an organization")
              ELSE IF id \notin DOMAIN upload_jobs \/ upload_jobs[id].org_id # org
                   THEN answer(404, "Upload job not found")
              ELSE IF upload_jobs[id].status # "pending"
                   THEN answer(400, "Upload job already processed")
              ELSE [me EXCEPT !.pc = "checked", !.org_id = org]]
    /\ UNCHANGED <<upload_jobs, customers, disk, uploadResp, slots>>

\* lines 86-107: the form is parsed and the job is set to 'processing'
SetProcessing(r, form, columnMapping, dbOk) ==
    /\ req[r].pc = "checked"
    /\ IF form = "missing"
       THEN /\ req' = [req EXCEPT ![r] = Respond(r, 400, "Column mapping is required")]
            /\ UNCHANGED upload_jobs
       ELSE IF form = "malformed"
       THEN /\ req' = [req EXCEPT ![r] = Respond(r, 500, "Internal server error")]
            /\ UNCHANGED upload_jobs
       ELSE /\ req' = [req EXCEPT ![r].pc = "processing",
                                  ![r].columnMapping = columnMapping]
            /\ upload_jobs' =
                  IF dbOk /\ req[r].id \in DOMAIN upload_jobs
                  THEN [upload_jobs EXCEPT ![req[r].id].status = "processing"]
                  ELSE upload_jobs
    /\ UNCHANGED <<customers, disk, uploadResp, slots>>

\* lines 117-188: the stream delivers every row and then 'end'
StreamEnd(r) ==
    /\ req[r].pc = "processing"
    /\ req[r].id \in DOMAIN disk
    /\ req' = [req EXCEPT ![r] =
                 [ReadRows(req[r], disk[req[r].id], 1) EXCEPT !.pc = "end"]]
    /\ UNCHANGED <<upload_jobs, customers, disk, uploadResp, slots>>

\* lines 118-119: the file cannot be opened; the read stream has no 'error'
\* listener (the listener of line 256 is on the parser), the request is
\* never answered
StreamOpenFails(r) ==
    /\ req[r].pc = "processing"
    /\ req[r].id \notin DOMAIN disk
    /\ req' = [req EXCEPT ![r].pc = "crashed"]
    /\ UNCHANGED <<upload_jobs, customers, disk, uploadResp, slots>>

\* lines 256-270: the parser emits 'error'
StreamParseError(r, dbOk) ==
    /\ req[r].pc = "processing"
    /\ req[r].id \in DOMAIN disk
    /\ upload_jobs' =
          IF dbOk /\ req[r].id \in DOMAIN upload_jobs
          THEN [upload_jobs EXCEPT
                  ![req[r].id].status = "failed",
                  ![req[r].id].errors =
                      [null |-> FALSE,
                       items |-> <<[row |-> 0, error |-> "CSV parsing failed"]>>]]
          ELSE upload_jobs
    /\ req' = [req EXCEPT ![r] = Respond(r, 500, "Failed to parse CSV file")]
    /\ UNCHANGED <<customers, disk, uploadResp, slots>>

\* InsertBatch with the spread after org_id: { org_id, ...customer }
InsertBatchRowWins(r, dbOk) ==
    /\ req[r].pc = "end"
    /\ req[r].i < Len(req[r].customers)
    /\ LET i == req[r].i
           last == IF i + batchSize < Len(req[r].customers)
                   THEN i + batchSize ELSE Len(req[r].customers)
           batch == SubSeq(req[r].customers, i + 1, last)
           customersToInsert ==
               [k \in 1..Len(batch) |->
                   IF batch[k]["org_id"] = ABSENT
                   THEN [batch[k] EXCEPT !["org_id"] = req[r].org_id]
                   ELSE batch[k]]
       IN  IF dbOk
           THEN /\ customers' = customers \o customersToInsert
                /\ req' = [req EXCEPT ![r].i = i + batchSize,
                                       ![r].insertedCount = @ + Len(batch)]
           ELSE /\ customers' = customers
                /\ req' = [req EXCEPT ![r].i = i + batchSize,
                                       ![r].errors = Append(@,
                                           [row |-> i + 1, error |-> "Database error"])]
    /\ UNCHANGED <<upload_jobs, disk, uploadResp, slots>>

\* lines 195-215: one pass of the batch loop
InsertBatch(r, dbOk) ==
    /\ req[r].pc = "end"
    /\ req[r].i < Len(req[r].customers)
    /\ LET i == req[r].i
           last == IF i + batchSize < Len(req[r].customers)
                   THEN i + batchSize ELSE Len(req[r].customers)
           batch == SubSeq(req[r].customers, i + 1, last)
           customersToInsert ==
               [k \in 1..Len(batch) |-> [batch[k] EXCEPT !["org_id"] = req[r].org_id]]
       IN  IF dbOk
           THEN /\ customers' = customers \o customersToInsert
                /\ req' = [req EXCEPT ![r].i = i + batchSize,
                                       ![r].insertedCount = @ + Len(batch)]
           ELSE /\ customers' = customers
                /\ req' = [req EXCEPT ![r].i = i + batchSize,
                                       ![r].errors = Append(@,
                                           [row |-> i + 1, error |-> "Database error"])]
    /\ UNCHANGED <<upload_jobs, disk, uploadResp, slots>>

\* FinalStatus that fails the job on any error
FinalStatusAnyError(errors, insertedCount) ==
    IF Len(errors) > 0 THEN "failed" ELSE "completed"

FinalStatus(errors, insertedCount) ==
    IF Len(errors) > 0 /\ insertedCount = 0 THEN "failed" ELSE "completed"

\* lines 217-238: the job is updated, the file removed, the request answered
Finish(r, dbOk) ==
    /\ req[r].pc = "end"
    /\ req[r].i >= Len(req[r].customers)
    /\ upload_jobs' =
          IF dbOk /\ req[r].id \in DOMAIN upload_jobs
          THEN [upload_jobs EXCEPT
                  ![req[r].id].status = FinalStatus(req[r].errors, req[r].insertedCount),
                  ![req[r].id].total_rows = req[r].totalRows - 1,
                  ![req[r].id].processed_rows = req[r].insertedCount,
                  ![req[r].id].errors =
                      IF Len(req[r].errors) > 0
                      THEN [null |-> FALSE, items |-> req[r].errors]
                      ELSE [null |-> TRUE, items |-> <<>>]]
          ELSE upload_jobs
    /\ disk' = [p \in DOMAIN disk \ {req[r].id} |-> disk[p]]
    /\ req' = [req EXCEPT ![r].pc = "done", ![r].status = 200]
    /\ UNCHANGED <<customers, uploadResp, slots>>

(***************************************************************************)
(* Specification of the CSV import with one client request                 *)
(***************************************************************************)
CsvIdle ==
    /\ upload_jobs = <<>>
    /\ customers = <<>>
    /\ disk = <<>>
    /\ uploadResp = [status |-> 0, error |-> "", job_id |-> NULL]
    /\ req = [r \in ReqIds |-> IdleReq]

CsvNext ==
    \/ \E j \in JobIds \ DOMAIN upload_jobs : \E u \in UserIds, content \in Files :
           InsertUploadJob(j, u, content)
    \/ \E j \in JobIds \ DOMAIN upload_jobs : \E token \in Tokens, hasFile \in BOOLEAN,
          isCsvName \in BOOLEAN, content \in Files, dbOk \in BOOLEAN :
           UploadCsv(j, token, hasFile, isCsvName, content, dbOk)
    \/ \E r \in slots, method \in {"POST", "GET"}, token \in Tokens,
          id \in JobIds \cup {"j0"} :
           Begin(r, method, token, id)
    \/ \E r \in slots, form \in {"missing", "malformed", "json"},
          columnMapping \in ColumnMappings, dbOk \in BOOLEAN :
           SetProcessing(r, form, columnMapping, dbOk)
    \/ \E r \in slots : StreamEnd(r)
    \/ \E r \in slots : StreamOpenFails(r)
    \/ \E r \in slots, dbOk \in BOOLEAN : StreamParseError(r, dbOk)
    \/ \E r \in slots, dbOk \in BOOLEAN : InsertBatch(r, dbOk)
    \/ \E r \in slots, dbOk \in BOOLEAN : Finish(r, dbOk)

(***************************************************************************)
(* Specification of the CSV import with two client requests that may run   *)
(* at the same time. Every await of the handler is a point where the other *)
(* request may run. The files are short and the mappings few, the requests *)
(* are what is varied here.                                                 *)
(***************************************************************************)
\* files with at most one data row
ShortFiles == { f \in Files : Len(f) <= 2 }

\* the mapping of every column to its field, and the mapping of the name only
PlainMappings ==
    { columnMapping \in ColumnMappings :
         /\ HName \in DOMAIN columnMapping
         /\ columnMapping[HName] = "name"
         /\ HPhone \in DOMAIN columnMapping
         /\ columnMapping[HPhone] \in {"phone", "ignore"} }

\* the uploads directory loses the file of a job (it lives on the local disk
\* of the server: path.join(process.cwd(), 'uploads'))
FileLost(j) ==
    /\ j \in DOMAIN disk
    /\ disk' = [p \in DOMAIN disk \ {j} |-> disk[p]]
    /\ UNCHANGED <<upload_jobs, customers, uploadResp, req, slots>>

CsvConcNext ==
    \/ \E j \in JobIds \ DOMAIN upload_jobs : \E u \in {"u1"}, content \in ShortFiles :
           InsertUploadJob(j, u, content)
    \/ \E r \in slots, token \in {"u1", "u2"}, id \in JobIds :
           Begin(r, "POST", token, id)
    \/ \E r \in slots, columnMapping \in PlainMappings, dbOk \in BOOLEAN :
           SetProcessing(r, "json", columnMapping, dbOk)
    \/ \E r \in slots : StreamEnd(r)
    \/ \E r \in slots : StreamOpenFails(r)
    \/ \E r \in slots, dbOk \in BOOLEAN : StreamParseError(r, dbOk)
    \/ \E r \in slots, dbOk \in BOOLEAN : InsertBatch(r, dbOk)
    \/ \E r \in slots, dbOk \in BOOLEAN : Finish(r, dbOk)
    \/ \E j \in DOMAIN disk : FileLost(j)

(***************************************************************************)
(* Next.js API proxy routes                                                *)
(***************************************************************************)
MaxCalls == 2

\* routes that forward without looking at the session
OpenRoutes == {"campaigns/pause", "campaigns/messages", "campaigns/get",
               "campaigns/put", "campaigns/delete", "campaigns/configure-whatsapp"}
\* routes that check the session and hand a backend error on
SessionRoutes == {"guests/get", "google/connection-status"}
\* routes that check the session and throw on a backend error
ThrowingRoutes == {"conversations/analytics", "conversations/messages"}
Routes == OpenRoutes \cup SessionRoutes \cup ThrowingRoutes

\* what fetch() gives: a rejected promise ("down"), or a response with a
\* status and a body that is JSON or not
BackendReplies ==
    { [status |-> 0, json |-> FALSE] } \cup
    { [status |-> c, json |-> b] : c \in {200, 400, 401, 404, 500}, b \in BOOLEAN }

Ok(reply) == reply.status >= 200 /\ reply.status <= 299

NoCall == [called |-> FALSE, session |-> FALSE, contacted |-> FALSE,
           backend |-> 0, status |-> 0]

Calls == Cardinality({rt \in Routes : proxy[rt].called})

\* if (!response.ok) { const error = await response.json();
\*                     return NextResponse.json(error, { status: response.status }) }
HandOn(reply) ==
    IF reply.status = 0 THEN 500                  \* fetch rejected: catch
    ELSE IF ~reply.json THEN 500                  \* response.json() throws: catch
    ELSE IF ~Ok(reply) THEN reply.status
    ELSE 200

\* if (!response.ok) { throw new Error(`HTTP error! status: ${response.status}`) }
ThrowOn(reply) ==
    IF reply.status = 0 THEN 500
    ELSE IF ~Ok(reply) THEN 500                   \* thrown, caught: 500
    ELSE IF reply.json THEN 200 ELSE 500

\* campaigns/[id]/pause, campaigns/[id]/messages, campaigns/[id],
\* campaigns/configure-whatsapp
OpenProxy(rt, hasSession, reply) ==
    /\ rt \in OpenRoutes
    /\ Calls < MaxCalls
    /\ proxy' = [proxy EXCEPT ![rt] =
                    [called |-> TRUE, session |-> hasSession, contacted |-> TRUE,
                     backend |-> reply.status,
                     status |-> IF rt = "campaigns/delete" /\ Ok(reply)
                                THEN 200        \* DELETE does not read the body
                                ELSE HandOn(reply)]]

\* guests GET, google/connection-status
SessionProxy(rt, hasSession, reply) ==
    /\ rt \in SessionRoutes
    /\ Calls < MaxCalls
    /\ proxy' = [proxy EXCEPT ![rt] =
                    IF ~hasSession
                    THEN [called |-> TRUE, session |-> FALSE, contacted |-> FALSE,
                          backend |-> 0, status |-> 401]
                    ELSE [called |-> TRUE, session |-> TRUE, contacted |-> TRUE,
                          backend |-> reply.status, status |-> HandOn(reply)]]

\* conversations/analytics GET, conversations/[id]/messages POST
ThrowingProxy(rt, hasSession, reply) ==
    /\ rt \in ThrowingRoutes
    /\ Calls < MaxCalls
    /\ proxy' = [proxy EXCEPT ![rt] =
                    IF ~hasSession
                    THEN [called |-> TRUE, session |-> FALSE, contacted |-> FALSE,
                          backend |-> 0, status |-> 401]
                    ELSE [called |-> TRUE, session |-> TRUE, contacted |-> TRUE,
                          backend |-> reply.status, status |-> ThrowOn(reply)]]

ProxyIdle == proxy = [rt \in Routes |-> NoCall]

ProxyNext ==
    \/ \E rt \in OpenRoutes, hasSession \in BOOLEAN, reply \in BackendReplies :
           OpenProxy(rt, hasSession, reply)
    \/ \E rt \in SessionRoutes, hasSession \in BOOLEAN, reply \in BackendReplies :
           SessionProxy(rt, hasSession, reply)
    \/ \E rt \in ThrowingRoutes, hasSession \in BOOLEAN, reply \in BackendReplies :
           ThrowingProxy(rt, hasSession, reply)

(***************************************************************************)
(* Row level security: database_schema.sql, fix_policies.sql and           *)
(* fix_policies_v2.sql                                                     *)
(***************************************************************************)
\* SQL comparison a = b in a WHERE clause: not true when either side is NULL
SqlEqNullsEqual(a, b) == a = b

SqlEq(a, b) == a # NULL /\ b # NULL /\ a = b

\* EXISTS (SELECT 1 FROM users WHERE users.id = auth.uid()
\*                              AND users.org_id = <table>.org_id)
OwnOrg(uid, org_id) ==
    \E u \in DOMAIN users : u = uid /\ SqlEq(users[u], org_id)

\* tables whose only policy is "Org data access" ... FOR ALL USING (own org)
OrgDataTables == {"upload_jobs", "campaigns", "guests", "google_business_profiles"}
Commands == {"SELECT", "INSERT", "UPDATE", "DELETE"}

\* a policy FOR ALL with USING and no WITH CHECK applies USING to the rows
\* read and to the rows written
OrgDataAccess(uid, cmd, org_id) == OwnOrg(uid, org_id)

\* policies on orgs: name, command, expression
P_ViewOwn    == [name |-> "Users can view own org data",   cmd |-> "SELECT", expr |-> "own"]
P_UpdateOwn  == [name |-> "Users can update own org data", cmd |-> "UPDATE", expr |-> "own"]
P_InsertData == [name |-> "Users can insert org data",     cmd |-> "INSERT", expr |-> "true"]
P_ViewAll    == [name |-> "Users can view all orgs",       cmd |-> "SELECT", expr |-> "true"]
P_UpdateAll  == [name |-> "Users can update orgs",         cmd |-> "UPDATE", expr |-> "true"]
P_InsertAll  == [name |-> "Users can insert orgs",         cmd |-> "INSERT", expr |-> "true"]

\* database_schema.sql lines 260-262
SchemaOrgPolicies == {P_ViewOwn, P_UpdateOwn, P_InsertData}

Drop(name)  == [op |-> "drop", name |-> name, policy |-> P_ViewOwn]
Create(pol) == [op |-> "create", name |-> pol.name, policy |-> pol]

\* the statements of fix_policies.sql that touch orgs
FixPolicies ==
    << Drop("Users can view own org data"), Drop("Users can update own org data"),
       Create(P_ViewOwn), Create(P_UpdateOwn), Create(P_InsertData) >>

\* the statements of fix_policies_v2.sql that touch orgs
FixPoliciesV2 ==
    << Drop("Users can view own org data"), Drop("Users can update own org data"),
       Drop("Users can insert org data"),
       Create(P_ViewAll), Create(P_UpdateAll), Create(P_InsertAll) >>

Names(policies) == { pol.name : pol \in policies }

\* run statements n.. of a script; CREATE POLICY fails when the name exists.
\* The result is the policy set and whether a statement failed.
RECURSIVE RunFrom(_, _, _, _)
RunFrom(policies, script, n, failed) ==
    IF n > Len(script) THEN [policies |-> policies, failed |-> failed]
    ELSE LET st == script[n]
         IN  IF st.op = "drop"
             THEN RunFrom({ pol \in policies : pol.name # st.name }, script, n + 1, failed)
             ELSE IF st.name \in Names(policies)
             THEN RunFrom(policies, script, n + 1, TRUE)
             ELSE RunFrom(policies \cup {st.policy}, script, n + 1, failed)

\* the SQL editor sends the script as one transaction (a failure undoes
\* it); psql runs statement by statement (a failure is skipped)
RunScript(policies, script, oneTransaction) ==
    LET ran == RunFrom(policies, script, 1, FALSE)
    IN  IF ran.failed /\ oneTransaction THEN policies ELSE ran.policies

ApplyScript(name, script, oneTransaction) ==
    /\ name \notin orgPolicies.applied
    /\ orgPolicies' = [policies |-> RunScript(orgPolicies.policies, script, oneTransaction),
                       applied |-> orgPolicies.applied \cup {name}]
    /\ UNCHANGED <<users, access>>

ApplyFixPolicies(oneTransaction) ==
    ApplyScript("fix_policies.sql", FixPolicies, oneTransaction)

ApplyFixPoliciesV2(oneTransaction) ==
    ApplyScript("fix_policies_v2.sql", FixPoliciesV2, oneTransaction)

\* permissive policies are OR-ed; no policy for a command denies it
OrgsAccess(uid, cmd, org) ==
    \E pol \in orgPolicies.policies :
        /\ pol.cmd = cmd
        /\ \/ pol.expr = "true"
           \/ pol.expr = "own" /\ OwnOrg(uid, org)

\* an authenticated user issues a statement that touches one row
Statement(uid, table, cmd, org_id) ==
    /\ access' = [user |-> uid, user_org |-> users[uid], table |-> table, cmd |-> cmd,
                  org_id |-> org_id, applied |-> orgPolicies.applied,
                  granted |-> IF table = "orgs"
                              THEN OrgsAccess(uid, cmd, org_id)
                              ELSE OrgDataAccess(uid, cmd, org_id)]
    /\ UNCHANGED <<users, orgPolicies>>

\* POST /api/users/ensure-org: a user without an organization gets one
EnsureOrg(uid, org) ==
    /\ users[uid] = NULL
    /\ users' = [users EXCEPT ![uid] = org]
    /\ UNCHANGED <<orgPolicies, access>>

RlsIdle ==
    /\ users = [u \in UserIds |-> ProfileOrg(u)]
    /\ orgPolicies = [policies |-> SchemaOrgPolicies, applied |-> {}]
    /\ access = [user |-> NULL, user_org |-> NULL, table |-> "", cmd |-> "",
                 org_id |-> NULL, applied |-> {}, granted |-> FALSE]

RlsNext ==
    \/ \E oneTransaction \in BOOLEAN : ApplyFixPolicies(oneTransaction)
    \/ \E oneTransaction \in BOOLEAN : ApplyFixPoliciesV2(oneTransaction)
    \/ \E uid \in UserIds, table \in OrgDataTables \cup {"orgs"}, cmd \in Commands,
          org_id \in OrgIds \cup {NULL} :
           Statement(uid, table, cmd, org_id)
    \/ \E uid \in UserIds, org \in OrgIds : EnsureOrg(uid, org)

(***************************************************************************)
(* Foreign keys: database_schema.sql lines 23-144 and migration 003        *)
(***************************************************************************)
MaxDbRows == 5

Tables == {"orgs", "users", "upload_jobs", "campaigns", "guests", "messages",
           "events", "conversations"}

FK(child, col, parent, onDelete) ==
    [child |-> child, col |-> col, parent |-> parent, onDelete |-> onDelete]

ForeignKeysEventsSetNull ==
    { FK("users", "org_id", "orgs", "CASCADE"),
      FK("upload_jobs", "org_id", "orgs", "CASCADE"),
      FK("upload_jobs", "user_id", "users", "CASCADE"),
      FK("campaigns", "org_id", "orgs", "CASCADE"),
      FK("campaigns", "user_id", "users", "CASCADE"),
      FK("guests", "org_id", "orgs", "CASCADE"),
      FK("guests", "campaign_id", "campaigns", "CASCADE"),
      FK("guests", "upload_job_id", "upload_jobs", "SET NULL"),
      FK("messages", "guest_id", "guests", "CASCADE"),
      FK("messages", "campaign_id", "campaigns", "CASCADE"),
      FK("events", "message_id", "messages", "SET NULL"),
      FK("conversations", "guest_id", "guests", "CASCADE"),
      FK("conversations", "campaign_id", "campaigns", "CASCADE") }

\* <column> UUID REFERENCES <parent>(id) ON DELETE <action>
ForeignKeys ==
    { FK("users", "org_id", "orgs", "CASCADE"),
      FK("upload_jobs", "org_id", "orgs", "CASCADE"),
      FK("upload_jobs", "user_id", "users", "CASCADE"),
      FK("campaigns", "org_id", "orgs", "CASCADE"),
      FK("campaigns", "user_id", "users", "CASCADE"),
      FK("guests", "org_id", "orgs", "CASCADE"),
      FK("guests", "campaign_id", "campaigns", "CASCADE"),
      FK("guests", "upload_job_id", "upload_jobs", "SET NULL"),
      FK("messages", "guest_id", "guests", "CASCADE"),
      FK("messages", "campaign_id", "campaigns", "CASCADE"),
      FK("events", "message_id", "messages", "CASCADE"),
      FK("conversations", "guest_id", "guests", "CASCADE"),
      FK("conversations", "campaign_id", "campaigns", "CASCADE") }

\* primary keys available to each table
Keys(t) ==
    CASE t = "orgs" -> {"o1", "o2"}
      [] t = "users" -> {"u1"}
      [] t = "upload_jobs" -> {"j1"}
      [] t = "campaigns" -> {"c1"}
      [] t = "guests" -> {"g1"}
      [] t = "messages" -> {"m1", "m2"}
      [] t = "events" -> {"e1"}
      [] OTHER -> {"v1"}

RowCount == Cardinality({ tk \in UNION {{<<t, k>> : k \in Keys(t)} : t \in Tables} :
                           tk[2] \in DOMAIN db[tk[1]] })

\* values a nullable foreign key column may take: NULL or an existing key
Refs(parent) == {NULL} \cup DOMAIN db[parent]

NoDelete == [table |-> "", id |-> NULL, ok |-> FALSE, removed |-> {}]

\* INSERT INTO t: the key is new and every foreign key is NULL or exists
Insert(t, k, row) ==
    /\ RowCount < MaxDbRows
    /\ k \notin DOMAIN db[t]
    /\ db' = [db EXCEPT ![t] = (k :> row) @@ @]
    /\ lastDelete' = NoDelete

InsertOrg(k) == Insert("orgs", k, <<>>)
InsertUser(k, org) == Insert("users", k, [org_id |-> org])
InsertJob(k, org, user) == Insert("upload_jobs", k, [org_id |-> org, user_id |-> user])
InsertCampaign(k, org, user) == Insert("campaigns", k, [org_id |-> org, user_id |-> user])
InsertGuest(k, org, campaign, job) ==
    Insert("guests", k, [org_id |-> org, campaign_id |-> campaign, upload_job_id |-> job])
InsertMessage(k, guest, campaign) ==
    Insert("messages", k, [guest_id |-> guest, campaign_id |-> campaign])
InsertEvent(k, message) == Insert("events", k, [message_id |-> message])
InsertConversation(k, guest, campaign) ==
    Insert("conversations", k, [guest_id |-> guest, campaign_id |-> campaign])

\* rows that reference a row of the set through a foreign key with the action
Referencing(rows, onDelete) ==
    UNION { { <<fk.child, k>> : k \in { c \in DOMAIN db[fk.child] :
                                          <<fk.parent, db[fk.child][c][fk.col]>> \in rows } }
            : fk \in { f \in ForeignKeys : f.onDelete = onDelete } }

\* the rows a DELETE removes: the row and, transitively, the rows that
\* reference a removed row through ON DELETE CASCADE
RECURSIVE Doomed(_)
Doomed(rows) ==
    LET more == rows \cup Referencing(rows, "CASCADE")
    IN  IF more = rows THEN rows ELSE Doomed(more)

\* DELETE FROM t WHERE id = k
Delete(t, k) ==
    /\ k \in DOMAIN db[t]
    /\ LET gone == Doomed({<<t, k>>})
           blocked == Referencing(gone, "NO ACTION") \ gone # {}
           nulled(tt, c, col) ==
               \E fk \in ForeignKeys :
                   /\ fk.child = tt /\ fk.col = col /\ fk.onDelete = "SET NULL"
                   /\ <<fk.parent, db[tt][c][col]>> \in gone
       IN  IF blocked
           THEN /\ db' = db
                /\ lastDelete' = [table |-> t, id |-> k, ok |-> FALSE, removed |-> {}]
           ELSE /\ db' = [tt \in Tables |->
                            [c \in { c \in DOMAIN db[tt] : <<tt, c>> \notin gone } |->
                               [col \in DOMAIN db[tt][c] |->
                                  IF nulled(tt, c, col) THEN NULL ELSE db[tt][c][col]]]]
                /\ lastDelete' = [table |-> t, id |-> k, ok |-> TRUE, removed |-> gone]

DbIdle ==
    /\ db = [t \in Tables |-> <<>>]
    /\ lastDelete = NoDelete

DbNext ==
    \/ \E k \in Keys("orgs") : InsertOrg(k)
    \/ \E k \in Keys("users"), org \in Refs("orgs") : InsertUser(k, org)
    \/ \E k \in Keys("upload_jobs"), org \in Refs("orgs"), user \in Refs("users") :
           InsertJob(k, org, user)
    \/ \E k \in Keys("campaigns"), org \in Refs("orgs"), user \in Refs("users") :
           InsertCampaign(k, org, user)
    \/ \E k \in Keys("guests"), org \in Refs("orgs"), campaign \in Refs("campaigns"),
          job \in Refs("upload_jobs") :
           InsertGuest(k, org, campaign, job)
    \/ \E k \in Keys("messages"), guest \in Refs("guests"), campaign \in Refs("campaigns") :
           InsertMessage(k, guest, campaign)
    \/ \E k \in Keys("events"), message \in Refs("messages") : InsertEvent(k, message)
    \/ \E k \in Keys("conversations"), guest \in Refs("guests"),
          campaign \in Refs("campaigns") :
           InsertConversation(k, guest, campaign)
    \/ \E t \in Tables : \E k \in DOMAIN db[t] : Delete(t, k)

(***************************************************************************)
(* Message dispatch and retry. The dispatcher is part of the FastAPI       *)
(* backend; the repository holds its documentation (Email Delivery         *)
(* Failures), the retry_count column and the Message type.                 *)
(***************************************************************************)
MsgIds == {"m1", "m2"}

\* "Failed emails are retried up to 3 times"
MaxRetries == 3
\* "Retry delays: 1min, 5min, 15min"
RetryDelays == <<1, 5, 15>>

\* ADD COLUMN IF NOT EXISTS retry_count INTEGER DEFAULT 0
RetryCountDefault == 0

\* a message row as the dispatcher first sees it; waited counts the minutes
\* since the last failure, delays records the wait before each retry
NewMessage == [status |-> "queued", retry_count |-> RetryCountDefault,
               waited |-> 0, delays |-> <<>>, sends |-> 0]

\* the first delivery attempt
Send(m, delivered) ==
    /\ msg[m].status = "queued"
    /\ msg' = [msg EXCEPT ![m].status = IF delivered THEN "sent" ELSE "failed",
                          ![m].sends = @ + 1,
                          ![m].waited = 0]

\* a minute passes for a failed message that still has a retry scheduled
Minute(m) ==
    /\ msg[m].status = "failed"
    /\ msg[m].retry_count < MaxRetries
    /\ msg[m].waited < RetryDelays[msg[m].retry_count + 1]
    /\ msg' = [msg EXCEPT ![m].waited = @ + 1]

\* Retry without the limit on the number of retries
RetryUnlimited(m, delivered) ==
    /\ msg[m].status = "failed"
    /\ msg[m].retry_count <= MaxRetries
    /\ msg' = [msg EXCEPT ![m].status = IF delivered THEN "sent" ELSE "failed",
                          ![m].retry_count = @ + 1,
                          ![m].delays = Append(@, msg[m].waited),
                          ![m].sends = @ + 1,
                          ![m].waited = 0]

\* the scheduled retry fires
Retry(m, delivered) ==
    /\ msg[m].status = "failed"
    /\ msg[m].retry_count < MaxRetries
    /\ msg[m].waited = RetryDelays[msg[m].retry_count + 1]
    /\ msg' = [msg EXCEPT ![m].status = IF delivered THEN "sent" ELSE "failed",
                          ![m].retry_count = @ + 1,
                          ![m].delays = Append(@, msg[m].waited),
                          ![m].sends = @ + 1,
                          ![m].waited = 0]

RetryIdle == msg = [m \in MsgIds |-> NewMessage]

RetryNext ==
    \/ \E m \in MsgIds, delivered \in BOOLEAN : Send(m, delivered)
    \/ \E m \in MsgIds : Minute(m)
    \/ \E m \in MsgIds, delivered \in BOOLEAN : Retry(m, delivered)

(***************************************************************************)
(* Table reviews: database_schema.sql lines 147-160 and the Google Reviews *)
(* migration. CREATE TABLE fails when the table exists; CREATE TABLE IF    *)
(* NOT EXISTS leaves an existing table as it is.                           *)
(***************************************************************************)
ReviewIds == {"v1", "v2"}
\* ratings a client may send; NULL is refused by NOT NULL in both scripts
Ratings == (0 - 1)..7

\* rating INTEGER NOT NULL CHECK (rating >= 1 AND rating <= 5)
RatingCheck(rating) == rating >= 1 /\ rating <= 5

\* database_schema.sql: CREATE TABLE reviews (...)
CreateReviewsSchema ==
    /\ reviewsDef = "none"
    /\ reviewsDef' = "database_schema.sql"
    /\ UNCHANGED <<reviews, lastReview>>

\* migration: CREATE TABLE IF NOT EXISTS reviews (... rating INTEGER NOT NULL ...)
CreateReviewsMigration ==
    /\ reviewsDef' = IF reviewsDef = "none" THEN "migration" ELSE reviewsDef
    /\ UNCHANGED <<reviews, lastReview>>

\* the constraints the existing table puts on a rating
RatingAccepted(rating) ==
    reviewsDef = "database_schema.sql" => RatingCheck(rating)

\* INSERT INTO reviews (id, rating) VALUES (k, rating)
InsertReview(k, rating) ==
    /\ reviewsDef # "none"
    /\ k \notin DOMAIN reviews
    /\ reviews' = IF RatingAccepted(rating) THEN (k :> rating) @@ reviews ELSE reviews
    /\ lastReview' = [op |-> "INSERT", id |-> k, rating |-> rating,
                      ok |-> RatingAccepted(rating)]
    /\ UNCHANGED reviewsDef

\* UPDATE reviews SET rating = rating WHERE id = k
UpdateReview(k, rating) ==
    /\ reviewsDef # "none"
    /\ k \in DOMAIN reviews
    /\ reviews' = IF RatingAccepted(rating) THEN [reviews EXCEPT ![k] = rating] ELSE reviews
    /\ lastReview' = [op |-> "UPDATE", id |-> k, rating |-> rating,
                      ok |-> RatingAccepted(rating)]
    /\ UNCHANGED reviewsDef

ReviewsIdle ==
    /\ reviewsDef = "none"
    /\ reviews = <<>>
    /\ lastReview = [op |-> "", id |-> NULL, rating |-> 1, ok |-> FALSE]

ReviewsNext ==
    \/ CreateReviewsSchema
    \/ CreateReviewsMigration
    \/ \E k \in ReviewIds, rating \in Ratings : InsertReview(k, rating)
    \/ \E k \in ReviewIds, rating \in Ratings : UpdateReview(k, rating)

(***************************************************************************)
(* Organization routes: POST /api/users/ensure-org and POST               *)
(* /api/users/create. Both use the service-role key, which is not subject  *)
(* to row level security.                                                  *)
(***************************************************************************)
\* ids the database gives to organizations created by the routes
NewOrgIds == {"o3", "o4"}

NoOrgReq == [route |-> "", session |-> NULL, target |-> NULL, status |-> 0,
             created |-> NULL, changed |-> {}]

\* POST /api/users/ensure-org; session is the user of the cookie session or NULL
EnsureOrgRoute(session, o, fetchOk, orgOk, userOk) ==
    /\ orgReq' =
          IF session = NULL
          THEN [NoOrgReq EXCEPT !.route = "ensure-org", !.status = 401]
          ELSE IF ~fetchOk
          THEN [NoOrgReq EXCEPT !.route = "ensure-org", !.session = session,
                                !.status = 500]
          ELSE IF users[session] # NULL
          THEN [NoOrgReq EXCEPT !.route = "ensure-org", !.session = session,
                                !.status = 200]
          ELSE IF ~orgOk
          THEN [NoOrgReq EXCEPT !.route = "ensure-org", !.session = session,
                                !.status = 500]
          ELSE [route |-> "ensure-org", session |-> session, target |-> session,
                status |-> IF userOk THEN 200 ELSE 500,
                created |-> o, changed |-> IF userOk THEN {session} ELSE {}]
    /\ orgs' = IF orgReq'.created # NULL THEN orgs \cup {o} ELSE orgs
    /\ users' = [u \in DOMAIN users |-> IF u \in orgReq'.changed THEN o ELSE users[u]]
    /\ UNCHANGED <<orgPolicies, access>>

\* POST /api/users/create; id is taken from the request body
UsersCreate(session, id, o, orgOk, userOk) ==
    /\ orgReq' =
          IF ~orgOk
          THEN [NoOrgReq EXCEPT !.route = "create", !.session = session,
                                !.target = id, !.status = 500]
          ELSE [route |-> "create", session |-> session, target |-> id,
                status |-> IF userOk THEN 200 ELSE 500,
                created |-> o,
                changed |-> IF userOk /\ id \in DOMAIN users THEN {id} ELSE {}]
    /\ orgs' = IF orgReq'.created # NULL THEN orgs \cup {o} ELSE orgs
    /\ users' = [u \in DOMAIN users |-> IF u \in orgReq'.changed THEN o ELSE users[u]]
    /\ UNCHANGED <<orgPolicies, access>>

OrgIdle ==
    /\ orgs = OrgIds
    /\ orgReq = NoOrgReq

OrgNext ==
    \/ \E session \in UserIds \cup {NULL}, o \in NewOrgIds \ orgs,
          fetchOk \in BOOLEAN, orgOk \in BOOLEAN, userOk \in BOOLEAN :
           EnsureOrgRoute(session, o, fetchOk, orgOk, userOk)
    \/ \E session \in UserIds \cup {NULL}, id \in UserIds \cup {"u0"},
          o \in NewOrgIds \ orgs, orgOk \in BOOLEAN, userOk \in BOOLEAN :
           UsersCreate(session, id, o, orgOk, userOk)

(***************************************************************************)
(* Campaign execution panel: src/unnamed/part_010 (CampaignExecution),     *)
(* mounted by src/frontend/src/app/reviews/page.tsx                        *)
(***************************************************************************)
\* campaigns.status as the schema allows it
CampaignStatuses == {"draft", "scheduled", "active", "paused", "completed", "cancelled"}
\* the lifecycle actions of handleCampaignAction
LifecycleActions == {"start", "stop", "pause", "resume"}

canStart(campaignStatus) == campaignStatus = "draft" \/ campaignStatus = "scheduled"
canPause(campaignStatus) == campaignStatus = "active"
canResume(campaignStatus) == campaignStatus = "paused"
\* canStop narrowed to the active campaign
canStopActiveOnly(campaignStatus) == campaignStatus = "active"
canStop(campaignStatus) == campaignStatus = "active" \/ campaignStatus = "paused"

\* the lifecycle buttons that the component renders for a status
LifecycleButtons(campaignStatus) ==
    { action \in LifecycleActions :
        \/ action = "start" /\ canStart(campaignStatus)
        \/ action = "pause" /\ canPause(campaignStatus)
        \/ action = "resume" /\ canResume(campaignStatus)
        \/ action = "stop" /\ canStop(campaignStatus) }

\* the page before it has loaded the campaign: nothing is mounted
Unmounted ==
    [ campaignStatus |-> NULL, loading |-> FALSE, error |-> NULL, action |-> NULL,
      showWhatsAppConfig |-> FALSE, showEmailConfig |-> FALSE, buttons |-> {} ]

\* the page loads the campaign and mounts the component with its status
MountCampaign(status) ==
    /\ ui.campaignStatus = NULL
    /\ ui' = [ Unmounted EXCEPT !.campaignStatus = status,
                                !.buttons = LifecycleButtons(status) ]

\* a click on a lifecycle button: handleCampaignAction up to its fetch
HandleCampaignAction(action) ==
    /\ ui.campaignStatus # NULL
    /\ action \in ui.buttons
    /\ ~ui.loading
    /\ ui' = [ ui EXCEPT !.loading = TRUE, !.error = NULL, !.action = action ]

\* the rest of handleCampaignAction: the answer of the route, or no answer
ActionAnswered(ok, status, detail) ==
    /\ ui.loading
    /\ ui' = IF ok
             THEN [ ui EXCEPT !.campaignStatus = status,
                              !.buttons = LifecycleButtons(status),
                              !.loading = FALSE ]
             ELSE [ ui EXCEPT !.error = IF detail THEN "detail" ELSE "Failed to " \o ui.action,
                              !.loading = FALSE ]

\* the two configuration dialogs are opened and closed
SetShowConfig(dialog, show) ==
    /\ ui.campaignStatus # NULL
    /\ ui[dialog] # show
    /\ ui' = [ ui EXCEPT ![dialog] = show ]

CampaignNext ==
    \/ \E status \in CampaignStatuses : MountCampaign(status)
    \/ \E action \in LifecycleActions : HandleCampaignAction(action)
    \* data.status of an answer is cast, not checked, by the page: it may be a
    \* value outside the six
    \/ \E ok \in BOOLEAN, status \in CampaignStatuses \cup {"other"}, detail \in BOOLEAN :
           ActionAnswered(ok, status, detail)
    \/ \E dialog \in {"showWhatsAppConfig", "showEmailConfig"}, show \in BOOLEAN :
           SetShowConfig(dialog, show)

(***************************************************************************)
(* Specifications: each one runs one part of the system and leaves the     *)
(* others in their initial state                                           *)
(***************************************************************************)
AllIdle == CsvIdle /\ ProxyIdle /\ RlsIdle /\ DbIdle /\ RetryIdle /\ ReviewsIdle /\ OrgIdle
            /\ ui = Unmounted

InitCsv == AllIdle /\ slots = {"r1"}
NextCsv == CsvNext /\ UNCHANGED <<proxyVars, rlsVars, dbVars, retryVars, reviewVars, orgVars, campaignVars>>
SpecCsv == InitCsv /\ [][NextCsv]_vars
InitCsvConc == AllIdle /\ slots = ReqIds
NextCsvConc == CsvConcNext /\ UNCHANGED <<proxyVars, rlsVars, dbVars, retryVars, reviewVars, orgVars, campaignVars>>
SpecCsvConc == InitCsvConc /\ [][NextCsvConc]_vars
\* what the server does for a request it has accepted: every pending await
\* of the handler is eventually resumed by the event loop
HandlerStep(r) ==
    \/ \E columnMapping \in PlainMappings, dbOk \in BOOLEAN :
           SetProcessing(r, "json", columnMapping, dbOk)
    \/ StreamEnd(r)
    \/ StreamOpenFails(r)
    \/ \E dbOk \in BOOLEAN : StreamParseError(r, dbOk)
    \/ \E dbOk \in BOOLEAN : InsertBatch(r, dbOk)
    \/ \E dbOk \in BOOLEAN : Finish(r, dbOk)
SpecCsvLive ==
    /\ InitCsv
    /\ [][NextCsvConc]_vars
    /\ \A r \in ReqIds :
           WF_vars(HandlerStep(r)
                   /\ UNCHANGED <<proxyVars, rlsVars, dbVars, retryVars, reviewVars, orgVars,
                                  campaignVars>>)
InitProxy == AllIdle /\ slots = {}
NextProxy == ProxyNext /\ UNCHANGED <<csvVars, rlsVars, dbVars, retryVars, reviewVars, orgVars, campaignVars>>
SpecProxy == InitProxy /\ [][NextProxy]_vars
InitRls == AllIdle /\ slots = {}
NextRls == RlsNext /\ UNCHANGED <<csvVars, proxyVars, dbVars, retryVars, reviewVars, orgVars, campaignVars>>
SpecRls == InitRls /\ [][NextRls]_vars
InitDb == AllIdle /\ slots = {}
NextDb == DbNext /\ UNCHANGED <<csvVars, proxyVars, rlsVars, retryVars, reviewVars, orgVars, campaignVars>>
SpecDb == InitDb /\ [][NextDb]_vars
InitRetry == AllIdle /\ slots = {}
NextRetry == RetryNext /\ UNCHANGED <<csvVars, proxyVars, rlsVars, dbVars, reviewVars, orgVars, campaignVars>>
SpecRetry == InitRetry /\ [][NextRetry]_vars
\* the parts that serve no CSV request start with no request slot in use
InitNoRequests == AllIdle /\ slots = {}
NextReviews == ReviewsNext /\ UNCHANGED <<csvVars, proxyVars, rlsVars, dbVars, retryVars, orgVars, campaignVars>>
SpecReviews == InitNoRequests /\ [][NextReviews]_vars
NextOrg == OrgNext /\ UNCHANGED <<csvVars, proxyVars, dbVars, retryVars, reviewVars, campaignVars>>
SpecOrg == InitNoRequests /\ [][NextOrg]_vars
NextCampaign ==
    CampaignNext /\ UNCHANGED <<csvVars, proxyVars, rlsVars, dbVars, retryVars, reviewVars, orgVars>>
SpecCampaign == InitNoRequests /\ [][NextCampaign]_vars
(***************************************************************************)
(* Properties of the CSV import                                            *)
(***************************************************************************)
\* a cell that is absent, empty or white space only
IsBlank(rowArray, index) ==
    \/ index > Len(rowArray)
    \/ \A k \in 1..Len(rowArray[index]) : rowArray[index][k] = " "

\* the columns of a row that the mapping sends to a field
MappedTo(file, columnMapping, field) ==
    { index \in 1..Len(file[1]) : Lookup(columnMapping, file[1][index]) = field }

\* the row has a non-blank cell in a column mapped to the field
HasValue(file, n, columnMapping, field) ==
    \E index \in MappedTo(file, columnMapping, field) : ~IsBlank(file[n], index)

\* the email the row is given: the last non-blank cell mapped to 'email'
EmailOf(file, n, columnMapping) ==
    LET cols == { index \in MappedTo(file, columnMapping, "email") :
                     ~IsBlank(file[n], index) }
        last == CHOOSE index \in cols : \A other \in cols : other <= index
    IN  Trim(file[n][last])

InvalidEmail(file, n, columnMapping) ==
    /\ HasValue(file, n, columnMapping, "email")
    /\ ~EmailPattern(EmailOf(file, n, columnMapping))

ErrorsOfRow(errors, n) == { k \in 1..Len(errors) : errors[k].row = n }

InSeq(x, q) == \E k \in 1..Len(q) : q[k] = x

\* the request has read its file to the end and the file is still there
HasRead(r) == req[r].pc = "end" /\ req[r].id \in DOMAIN disk

RejectedAs(r, n, text) ==
    /\ ~InSeq(n, req[r].pushed)
    /\ Cardinality(ErrorsOfRow(req[r].errors, n)) = 1
    /\ \A k \in ErrorsOfRow(req[r].errors, n) : req[r].errors[k].error = text

\* every data row was handled: it was pushed or it has an error entry
AllRowsHandled(r) ==
    /\ req[r].totalRows = Len(disk[req[r].id])
    /\ \A n \in 2..Len(disk[req[r].id]) :
          InSeq(n, req[r].pushed) \/ ErrorsOfRow(req[r].errors, n) # {}

\* the job record written by Finish carries the errors of the request
JobCarriesErrors(r) ==
    (/\ req[r].pc = "done" /\ req[r].status = 200
     /\ req[r].id \in DOMAIN upload_jobs
     /\ upload_jobs[req[r].id].status \in {"completed", "failed"})
    => upload_jobs[req[r].id].errors.items = req[r].errors

\* C1 as stated: every data row whose mapped email is non-empty and does
\* not match the pattern is not pushed and has exactly one error entry,
\* 'Invalid email format', and the other rows are still processed.
C1_AsStated ==
    \A r \in slots : HasRead(r) =>
        /\ AllRowsHandled(r)
        /\ \A n \in 2..Len(disk[req[r].id]) :
              InvalidEmail(disk[req[r].id], n, req[r].columnMapping)
                  => RejectedAs(r, n, "Invalid email format")

\* C1 amended: every data row that has a non-blank name and whose mapped
\* email is non-empty and does not match the pattern is not pushed and
\* has exactly one error entry, 'Invalid email format'; the other rows are
\* still processed and the job record carries the entries.
C1_InvalidEmailRejected ==
    \A r \in slots :
        /\ JobCarriesErrors(r)
        /\ HasRead(r) =>
              /\ AllRowsHandled(r)
              /\ \A n \in 2..Len(disk[req[r].id]) :
                    (/\ HasValue(disk[req[r].id], n, req[r].columnMapping, "name")
                     /\ InvalidEmail(disk[req[r].id], n, req[r].columnMapping))
                        => RejectedAs(r, n, "Invalid email format")

\* a file with a rejected invalid email and another row that was pushed
C1_Witness ==
    \E r \in slots :
        /\ HasRead(r)
        /\ req[r].pushed # <<>>
        /\ \E n \in 2..Len(disk[req[r].id]) :
              /\ HasValue(disk[req[r].id], n, req[r].columnMapping, "name")
              /\ InvalidEmail(disk[req[r].id], n, req[r].columnMapping)
              /\ InSeq([row |-> n, error |-> "Invalid email format"], req[r].errors)

\* the row has a non-blank name and no other cell the mapping keeps
NameOnly(file, n, columnMapping) ==
    /\ HasValue(file, n, columnMapping, "name")
    /\ \A index \in 1..Len(file[1]) :
          Lookup(columnMapping, file[1][index]) \in {"", "ignore", "name"}
              \/ IsBlank(file[n], index)

\* C2: name is the only required field. A data row without a non-blank
\* cell mapped to 'name' is not pushed and has exactly one error entry,
\* 'Name is required'; a row with a non-blank name and no other mapped value
\* is pushed without an error entry, and is in the customers table when its
\* batch insert succeeds.
C2_NameOnlyRequired ==
    \A r \in slots :
        /\ HasRead(r) =>
              \A n \in 2..Len(disk[req[r].id]) :
                  /\ ~HasValue(disk[req[r].id], n, req[r].columnMapping, "name")
                        => RejectedAs(r, n, "Name is required")
                  /\ NameOnly(disk[req[r].id], n, req[r].columnMapping)
                        => /\ InSeq(n, req[r].pushed)
                           /\ ErrorsOfRow(req[r].errors, n) = {}
        /\ (req[r].pc \in {"end", "done"} /\ req[r].insertedCount > 0)
              => /\ req[r].insertedCount = Len(req[r].pushed)
                 /\ Len(customers) = Len(req[r].pushed)
                 /\ \A k \in 1..Len(customers) : customers[k]["name"] # ABSENT

\* a file with a row without a name and a row that has only a name, inserted
C2_Witness ==
    \E r \in slots :
        /\ HasRead(r)
        /\ req[r].insertedCount > 0
        /\ \E n \in 2..Len(disk[req[r].id]) :
              /\ ~HasValue(disk[req[r].id], n, req[r].columnMapping, "name")
              /\ InSeq([row |-> n, error |-> "Name is required"], req[r].errors)
        /\ \E n \in 2..Len(disk[req[r].id]) :
              /\ NameOnly(disk[req[r].id], n, req[r].columnMapping)
              /\ InSeq(n, req[r].pushed)

\* C3: the process request made by the uploader for a job that the upload
\* route created is not answered 400 'Upload job already processed'.
C3_UploadedJobIsProcessed ==
    \A r \in slots :
        (/\ req[r].pc = "done"
         /\ req[r].id \in DOMAIN upload_jobs
         /\ upload_jobs[req[r].id].created_by = "upload"
         /\ req[r].user = upload_jobs[req[r].id].user_id)
        => ~(req[r].status = 400 /\ req[r].error = "Upload job already processed")

\* C8: after an import has completed, no two customers of an organization
\* have the same phone and the same email.
C8_NoDuplicateCustomers ==
    (\E r \in slots : req[r].pc = "done" /\ req[r].status = 200)
    => \A a \in 1..Len(customers) : \A b \in 1..Len(customers) :
          (/\ a # b
           /\ customers[a]["org_id"] = customers[b]["org_id"]
           /\ customers[a]["phone"] # ABSENT /\ customers[a]["email"] # ABSENT)
          => ~(/\ customers[a]["phone"] = customers[b]["phone"]
               /\ customers[a]["email"] = customers[b]["email"])
(***************************************************************************)
(* Properties of the proxy routes                                          *)
(***************************************************************************)
\* C4: a proxy route that received a non-OK response from the backend
\* answers with the status code the backend returned.
C4_StatusHandedOn ==
    \A rt \in Routes :
        (/\ proxy[rt].called /\ proxy[rt].contacted
         /\ proxy[rt].backend # 0
         /\ ~(proxy[rt].backend >= 200 /\ proxy[rt].backend <= 299))
        => proxy[rt].status = proxy[rt].backend

(***************************************************************************)
(* Properties of the row-level-security policies                           *)
(***************************************************************************)
\* C5: a statement on a row of upload_jobs, campaigns, guests or
\* google_business_profiles is allowed only if the row's org_id equals the
\* org_id of the user's users row; a user whose org_id is NULL is allowed
\* nothing.
C5_OrgDataScoped ==
    (access.table \in OrgDataTables /\ access.granted)
    => /\ access.user_org # NULL
       /\ access.org_id = access.user_org
       /\ access.user_org = users[access.user]

\* a user deletes a row of the own organization
C5_Witness ==
    /\ access.table \in OrgDataTables
    /\ access.cmd = "DELETE"
    /\ access.granted
    /\ access.org_id = access.user_org

\* C6: once fix_policies.sql and fix_policies_v2.sql are applied, a user
\* can view or update an orgs row only if it is the user's own
\* organization.
C6_OwnOrgOnly ==
    (/\ access.table = "orgs"
     /\ access.applied = {"fix_policies.sql", "fix_policies_v2.sql"}
     /\ access.cmd \in {"SELECT", "UPDATE"}
     /\ access.granted)
    => access.org_id = access.user_org

(***************************************************************************)
(* Properties of the message retry                                         *)
(***************************************************************************)
\* C7: a failed message is retried at most 3 times, after 1, 5 and 15
\* minutes; retry_count never exceeds 3 and after the third failed retry
\* the message is not sent again.
C7_RetryBounded ==
    \A m \in MsgIds :
        /\ msg[m].retry_count >= 0 /\ msg[m].retry_count <= 3
        /\ Len(msg[m].delays) = msg[m].retry_count
        /\ \A k \in 1..Len(msg[m].delays) : msg[m].delays[k] = <<1, 5, 15>>[k]
        /\ msg[m].sends <= 1 + msg[m].retry_count
        /\ msg[m].sends <= 4

\* a message whose third retry has failed
C7_Witness ==
    \E m \in MsgIds :
        /\ msg[m].status = "failed"
        /\ msg[m].retry_count = 3
        /\ msg[m].sends = 4
        /\ msg[m].delays = <<1, 5, 15>>

(***************************************************************************)
(* Properties of the foreign keys                                          *)
(***************************************************************************)
\* the table a foreign key column points to
ParentOfColumn(col) ==
    CASE col = "org_id" -> "orgs"
      [] col = "user_id" -> "users"
      [] col = "campaign_id" -> "campaigns"
      [] col = "guest_id" -> "guests"
      [] col = "upload_job_id" -> "upload_jobs"
      [] OTHER -> "messages"

\* the dependants the claim names for each parent table
DeletedWith(parent) ==
    CASE parent = "orgs" -> {"users", "upload_jobs", "campaigns", "guests"}
      [] parent = "campaigns" -> {"messages", "conversations"}
      [] parent = "guests" -> {"messages", "conversations"}
      [] OTHER -> {"events"}

CascadeStep ==
    \A t \in {"orgs", "campaigns", "guests", "messages"} :
      \A k \in DOMAIN db[t] :
        k \notin DOMAIN db'[t] =>
          \A tt \in Tables : \A c \in DOMAIN db[tt] : \A col \in DOMAIN db[tt][c] :
            (ParentOfColumn(col) = t /\ db[tt][c][col] = k) =>
               /\ tt \in DeletedWith(t) => c \notin DOMAIN db'[tt]
               /\ c \in DOMAIN db'[tt] => db'[tt][c][col] # k

C10_EventHasMessage ==
    \A e \in DOMAIN db["events"] :
        db["events"][e]["message_id"] \in DOMAIN db["messages"]
(***************************************************************************)
(* Properties of table reviews                                             *)
(***************************************************************************)
\* C11: every stored review has a rating between 1 and 5, and an insert or
\* update with a rating outside 1..5 is rejected.
C11_RatingInRange ==
    /\ \A k \in DOMAIN reviews : reviews[k] >= 1 /\ reviews[k] <= 5
    /\ (lastReview.op # "" /\ ~(lastReview.rating >= 1 /\ lastReview.rating <= 5))
          => ~lastReview.ok
(***************************************************************************)
(* Properties of concurrent process requests                               *)
(***************************************************************************)
\* C12: for one upload job at most one process request inserts customers,
\* so the rows of the file are in the customers table at most once.
C12_ImportedAtMostOnce ==
    \A r1 \in slots : \A r2 \in slots :
        (/\ r1 # r2
         /\ req[r1].id # NULL /\ req[r1].id = req[r2].id
         /\ req[r1].insertedCount > 0)
        => /\ req[r2].insertedCount = 0
           /\ Len(customers) = req[r1].insertedCount
\* C13: every upload job that is set to 'processing' eventually reaches
\* 'completed' or 'failed', and the request that went on to process it is
\* eventually answered.
C13_ProcessingEnds ==
    /\ \A j \in JobIds :
          (j \in DOMAIN upload_jobs /\ upload_jobs[j].status = "processing")
             ~> (j \in DOMAIN upload_jobs
                   /\ upload_jobs[j].status \in {"completed", "failed"})
    /\ \A r \in ReqIds :
          (req[r].pc = "processing") ~> (req[r].pc = "done" /\ req[r].status # 0)
\* the moves of a job's status that the claim allows
StatusMoves ==
    { <<"pending", "processing">>, <<"processing", "completed">>,
      <<"processing", "failed">> }

JobStep ==
    \A j \in DOMAIN upload_jobs :
        /\ j \in DOMAIN upload_jobs'
        /\ upload_jobs'[j].status # upload_jobs[j].status
              => <<upload_jobs[j].status, upload_jobs'[j].status>> \in StatusMoves
        /\ upload_jobs[j].status \in {"completed", "failed"}
              => upload_jobs'[j] = upload_jobs[j]

\* C14: a job's status only moves pending -> processing -> completed or
\* failed, and no step changes a job that is 'completed' or 'failed'.
C14_StatusMonotone == [][JobStep]_vars
(***************************************************************************)
(* Properties of the job record written at the end of processing           *)
(***************************************************************************)
\* the request ran to the end and its final update of the job was stored
JobWritten(r) ==
    /\ req[r].pc = "done" /\ req[r].status = 200
    /\ req[r].id \in DOMAIN upload_jobs
    /\ upload_jobs[req[r].id].status \in {"completed", "failed"}

\* C15: at the end of processing the job is 'failed' exactly when at least
\* one error was recorded and no customer was inserted, and 'completed'
\* otherwise: with rejected rows and an inserted row it is 'completed', and
\* with no data rows and no errors it is 'completed'.
C15_FailedIffNothingInserted ==
    \A r \in slots : JobWritten(r) =>
        LET job == upload_jobs[req[r].id]
        IN  /\ job.status = "failed"
                  <=> (Len(req[r].errors) > 0 /\ req[r].insertedCount = 0)
            /\ Len(customers) > 0 => job.status = "completed"
            /\ (req[r].totalRows <= 1 /\ req[r].errors = <<>>)
                  => job.status = "completed"

\* a file with a rejected row and an inserted row ended 'completed'
C15_Witness ==
    \E r \in slots :
        /\ JobWritten(r)
        /\ upload_jobs[req[r].id].status = "completed"
        /\ Len(req[r].errors) > 0
        /\ Len(customers) > 0
\* the data rows among the lines a request has read: all but the header
DataRowsRead(r) == IF req[r].totalRows = 0 THEN 0 ELSE req[r].totalRows - 1

\* C16: in the job record written at the end of processing, total_rows is
\* the number of data rows of the file and is not negative, processed_rows
\* is the number of customers inserted, and 0 <= processed_rows <= total_rows.
C16_RowCounts ==
    \A r \in slots : JobWritten(r) =>
        LET job == upload_jobs[req[r].id]
        IN  /\ job.total_rows >= 0
            /\ job.total_rows = DataRowsRead(r)
            /\ job.processed_rows = Len(customers)
            /\ 0 <= job.processed_rows /\ job.processed_rows <= job.total_rows
(***************************************************************************)
(* Properties of the organization a process request writes to              *)
(***************************************************************************)
\* the job was changed by a process request
JobTouched(j) ==
    \/ upload_jobs[j].status \in {"processing", "completed", "failed"}
    \/ upload_jobs[j].errors # NoErrors

\* C17: every customer a process request inserts has the org_id of the
\* caller, also when a CSV column is mapped to 'org_id', and a job that a
\* process request changed belongs to the organization of its caller.
C17_WritesOwnOrg ==
    /\ \A k \in 1..Len(customers) :
          \E r \in slots :
              /\ req[r].user \in UserIds
              /\ ProfileOrg(req[r].user) # NULL
              /\ customers[k]["org_id"] = ProfileOrg(req[r].user)
    /\ \A j \in DOMAIN upload_jobs :
          JobTouched(j) =>
              \E r \in slots :
                  /\ req[r].id = j
                  /\ req[r].user \in UserIds
                  /\ ProfileOrg(req[r].user) = upload_jobs[j].org_id

\* a row whose column mapped to 'org_id' held a value was inserted
C17_Witness ==
    \E r \in slots :
        /\ req[r].insertedCount > 0
        /\ \E k \in 1..Len(req[r].customers) : req[r].customers[k]["org_id"] # ABSENT
        /\ \A k \in 1..Len(customers) : customers[k]["org_id"] = ProfileOrg(req[r].user)
(***************************************************************************)
(* Properties of the organization routes                                   *)
(***************************************************************************)
\* C18: a request creates an organization or changes the org_id of a users
\* row only if it carries a valid session, and the only row it changes is
\* the row of the session's user.
C18_OrgChangeAuthenticated ==
    (orgReq.created # NULL \/ orgReq.changed # {})
    => /\ orgReq.session # NULL
       /\ orgReq.changed \subseteq {orgReq.session}
(***************************************************************************)
(* Properties of the authentication of the proxy routes                    *)
(***************************************************************************)
\* C19: a route called without a valid session answers 401 and does not
\* contact the backend for that request.
C19_UnauthorizedBeforeBackend ==
    \A rt \in Routes :
        (proxy[rt].called /\ ~proxy[rt].session)
        => /\ proxy[rt].status = 401
           /\ ~proxy[rt].contacted
(***************************************************************************)
(* Properties of the campaign execution panel                              *)
(***************************************************************************)
\* C20: 'start' is offered only for a draft or scheduled campaign, 'pause'
\* only for an active one, 'resume' only for a paused one, 'stop' only for an
\* active or paused one, and a completed or cancelled campaign is offered no
\* lifecycle action.
C20_LifecycleButtons ==
    ui.campaignStatus # NULL =>
        /\ "start" \in ui.buttons <=> ui.campaignStatus \in {"draft", "scheduled"}
        /\ "pause" \in ui.buttons <=> ui.campaignStatus = "active"
        /\ "resume" \in ui.buttons <=> ui.campaignStatus = "paused"
        /\ "stop" \in ui.buttons <=> ui.campaignStatus \in {"active", "paused"}
        /\ ui.campaignStatus \in {"completed", "cancelled"} => ui.buttons = {}
\* a campaign paused from the panel offers resume and stop
C20_Witness ==
    /\ ui.campaignStatus = "paused"
    /\ ui.action = "pause"
    /\ ~ui.loading
    /\ ui.buttons = {"resume", "stop"}
====
